---- MODULE Spec2Model ----
(***************************************************************************)
(* Model of fix_mapfile_time.py: a batch utility that looks up a layer's   *)
(* WMS time extent in a GetCapabilities document and writes it into the    *)
(* layer's wms_timeextent metadata entry before saving the mapfile.        *)
(*                                                                         *)
(* Python strings that the program takes apart (paths, extent texts) are   *)
(* sequences of one-character strings.  An optional value (None or a       *)
(* value) is a sequence of length 0 or 1.                                  *)
(***************************************************************************)
EXTENDS Integers, Sequences, FiniteSets, TLC

VARIABLES
    pc,             \* position of the script
    args,           \* parsed command line: LAYER, SOURCE, DEST
    fs,             \* file system: path -> file content
    ipython,        \* environment: can "import IPython" succeed
    openHandles,    \* indices of SOURCE handles opened by argparse, not yet closed
    folder,         \* main(): folder
    outfile,        \* main(): outfile
    idx,            \* main(): position of the for loop in args.SOURCE
    outFile,        \* process(): resolved output path
    source,         \* the mapfile as parsed by mapscript.mapObj(fileName)
    original,       \* process(): the in-memory mapObj
    layer,          \* process(): result of getLayerByName
    stream,         \* capabilitiesXml: "none", "open" or "closed"
    requests,       \* GetCapabilities requests made so far
    opened,         \* paths handed to mapscript.mapObj so far
    saved,          \* records of original.save(outFile) calls
    log,            \* records written through the logging module
    fetched,        \* outcome of each updateWMStimeExtent call so far
    raised,         \* name of the exception that ended the run, if any
    usagePrinted,   \* parser.print_usage() was called
    exitStatus,     \* process exit status, once exited
    capabilitiesTree,   \* fetcher specification: the parsed capabilities document
    strTimeExtent,      \* fetcher specifications: the extent string at hand
    result              \* fetcher specifications: outcome of the step

vars == <<pc, args, fs, ipython, openHandles, folder, outfile, idx, outFile,
          source, original, layer, stream, requests, opened, saved, log,
          fetched, raised, usagePrinted, exitStatus, capabilitiesTree,
          strTimeExtent, result>>

-----------------------------------------------------------------------------
(* Bounds *)

MaxSources == 2     \* most SOURCE arguments on a command line
MaxLayers == 3      \* most Layer elements in a capabilities document
MaxLen == 4         \* longest string given to the normalization

-----------------------------------------------------------------------------
(* Program constants *)

EX_OK == 0
EX_USAGE == 64
EX_FAILURE == 1

MDKEY == "wms_timeextent"
OTHERKEY == "wms_title"         \* some other metadata key of a layer

QUERY == "SERVICE=WMS&VERSION=1.1.1&REQUEST=GetCapabilities"

-----------------------------------------------------------------------------
(* Python values *)

None == <<>>
Some(v) == <<v>>

\* truth value of an optional string: None and '' are false
Truthy(o) == o # None /\ o[1] # <<>>

PyNone == [tag |-> "NoneObject", name |-> ""]
NoneType == [tag |-> "type", name |-> "NoneType"]
LayerObj(n) == [tag |-> "layerObj", name |-> n]

-----------------------------------------------------------------------------
(* os.path *)

RECURSIVE LastSlash(_, _)
\* str.rfind('/') + 1 over the first n characters
LastSlash(p, n) ==
    IF n = 0 THEN 0
    ELSE IF p[n] = "/" THEN n
    ELSE LastSlash(p, n - 1)

\* os.path.basename
Basename(p) == SubSeq(p, LastSlash(p, Len(p)) + 1, Len(p))

\* os.path.join(a, b)
Join(a, b) ==
    IF b # <<>> /\ b[1] = "/" THEN b
    ELSE IF a = <<>> \/ a[Len(a)] = "/" THEN a \o b
    ELSE a \o <<"/">> \o b

RECURSIVE StripSlash(_)
StripSlash(p) ==
    IF Len(p) > 1 /\ p[Len(p)] = "/" THEN StripSlash(SubSeq(p, 1, Len(p) - 1))
    ELSE p

\* the directories that exist
Dirs == {<<"d">>, <<"s">>}

\* os.path.isdir
Isdir(p) == p # <<>> /\ StripSlash(p) \in Dirs

-----------------------------------------------------------------------------
(* Strings *)

RECURSIVE ReplaceFirst(_, _, _)
\* str.replace(old, new, 1): only the first occurrence
ReplaceFirst(s, old, new) ==
    IF Len(s) < Len(old) THEN s
    ELSE IF SubSeq(s, 1, Len(old)) = old
         THEN new \o SubSeq(s, Len(old) + 1, Len(s))
    ELSE <<s[1]>> \o ReplaceFirst(Tail(s), old, new)

RECURSIVE Replace(_, _, _)
\* str.replace(old, new) for a non-empty old: left to right, non-overlapping
Replace(s, old, new) ==
    IF Len(s) < Len(old) THEN s
    ELSE IF SubSeq(s, 1, Len(old)) = old
         THEN new \o Replace(SubSeq(s, Len(old) + 1, Len(s)), old, new)
    ELSE <<s[1]>> \o Replace(Tail(s), old, new)

\* strTimeExtent.replace('-', '')
Normalize(s) == Replace(s, <<"-">>, <<>>)

-----------------------------------------------------------------------------
(* Capabilities documents                                                  *)
(*                                                                         *)
(* A document is the sequence of its Layer elements in document order      *)
(* (preorder).  Element i has a parent Layer (0: none), a Name, and at     *)
(* most one Extent child, which stands either before or after the nested   *)
(* Layer elements of its parent.                                           *)

LayerNames == {"X", "Y"}

T1 == <<"1", "-", "2", ",", "3", "-", "4">>
T2 == <<"5", "-", "6">>

Extent(n, t, f) == [name |-> n, text |-> t, first |-> f]

ExtentChoices ==
    {<<>>}
    \cup {<<Extent("time", t, f)>> : t \in {T1, T2}, f \in BOOLEAN}
    \cup {<<Extent("time", <<>>, TRUE)>>, <<Extent("elevation", T1, TRUE)>>}

RECURSIVE AncestorOrSelf(_, _)
\* ancestor-or-self::Layer of element i
AncestorOrSelf(d, i) ==
    IF i = 0 THEN {} ELSE {i} \cup AncestorOrSelf(d, d[i].parent)

\* where a next Layer element may be attached to the parent vector sh so
\* that the numbering stays the document order: at the top, or under the
\* last element or one of its ancestors
ValidParents(sh) ==
    IF sh = <<>> THEN {0}
    ELSE {0} \cup AncestorOrSelf([i \in 1..Len(sh) |-> [parent |-> sh[i]]],
                                 Len(sh))

RECURSIVE Shapes(_)
\* the parent vectors of the documents of n Layer elements
Shapes(n) ==
    IF n = 0 THEN {<<>>}
    ELSE UNION {{Append(sh, p) : p \in ValidParents(sh)} : sh \in Shapes(n - 1)}

\* the document of shape sh with the names nm and the Extent children ex
Doc(sh, nm, ex) ==
    [i \in 1..Len(sh) |-> [parent |-> sh[i], Name |-> nm[i], Extent |-> ex[i]]]

RECURSIVE ExtentsIn(_, _)
RECURSIVE ChildExtents(_, _, _)
\* the Extent elements inside Layer i, in document order, each named by the
\* Layer that owns it
ExtentsIn(d, i) ==
    LET own == IF d[i].Extent = <<>> THEN <<>> ELSE <<i>>
        isFirst == d[i].Extent # <<>> /\ d[i].Extent[1].first
    IN  (IF isFirst THEN own ELSE <<>>)
        \o ChildExtents(d, i, i + 1)
        \o (IF isFirst THEN <<>> ELSE own)

\* the Extent elements inside the child Layers k, k+1, ... of i
ChildExtents(d, i, k) ==
    IF k > Len(d) THEN <<>>
    ELSE (IF d[k].parent = i THEN ExtentsIn(d, k) ELSE <<>>)
         \o ChildExtents(d, i, k + 1)

\* all Extent elements of the document in document order
DocExtents(d) == ChildExtents(d, 0, 1)

\* //Layer[Name='%s']
NamedLayers(d, name) == {i \in 1..Len(d) : d[i].Name = name}

\* //Layer[Name='%s']/self::Layer : the variant without the cascade
SelfOnlyContext(d, name) == NamedLayers(d, name)

\* //Layer[Name='%s']/ancestor-or-self::Layer
Context(d, name) == UNION {AncestorOrSelf(d, i) : i \in NamedLayers(d, name)}

\* .../Extent[@name='time']/text() : the owners of the selected text nodes
TimeTextOwners(d, name) ==
    {i \in Context(d, name) :
        /\ d[i].Extent # <<>>
        /\ d[i].Extent[1].name = "time"
        /\ d[i].Extent[1].text # <<>>}

RECURSIVE Reverse(_)
Reverse(s) == IF s = <<>> THEN <<>> ELSE Append(Reverse(Tail(s)), s[1])

\* the variant that returns the node set innermost first
XPathInnermostFirst(d, name) ==
    SelectSeq(Reverse(DocExtents(d)), LAMBDA i : i \in TimeTextOwners(d, name))

\* capabilitiesTree.xpath(...): the selected text nodes in document order,
\* each named by the Layer that owns its Extent
XPath(d, name) ==
    SelectSeq(DocExtents(d), LAMBDA i : i \in TimeTextOwners(d, name))

\* the string value of the text node owned by Layer i
TextOf(d, i) == d[i].Extent[1].text

\* lines 131-135: None when [0] raises IndexError, else the purged string
TimeExtentOf(d, name) ==
    LET found == XPath(d, name)
    IN  IF found = <<>> THEN None ELSE Some(Normalize(TextOf(d, found[1])))

-----------------------------------------------------------------------------
(* Mapfiles *)

NoMetaData == [k \in {} |-> <<>>]

LayerRec(c, md) == [connection |-> c, metadata |-> md]

\* a mapfile whose layer X has no wms_timeextent entry yet
MapA ==
    [kind |-> "map", settings |-> "A",
     layers |-> ("X" :> LayerRec("http://a/wms?", OTHERKEY :> <<"m">>)
                 @@ "Y" :> LayerRec("http://y/wms?", NoMetaData))]

\* a mapfile whose layers already carry a wms_timeextent entry
MapB ==
    [kind |-> "map", settings |-> "B",
     layers |-> ("X" :> LayerRec("http://b/wms?",
                                 MDKEY :> <<"9">> @@ OTHERKEY :> <<"n">>)
                 @@ "Y" :> LayerRec("http://y/wms?", MDKEY :> <<"8">>))]

\* a mapfile without the layer X
MapC ==
    [kind |-> "map", settings |-> "C",
     layers |-> ("Y" :> LayerRec("http://y/wms?", OTHERKEY :> <<"m">>))]

\* a file mapscript cannot parse
Junk == [kind |-> "junk", settings |-> "", layers |-> <<>>]

NoFile == [kind |-> "none", settings |-> "", layers |-> <<>>]

FileContents == {MapA, MapB, MapC, Junk}

\* mapObj.getLayerByName
getLayerByName(map, name) ==
    IF name \in DOMAIN map.layers THEN LayerObj(name) ELSE PyNone

\* layerObj.setMetaData on the layer called name of map
setMetaData(map, name, key, value) ==
    [map EXCEPT !.layers[name].metadata =
        [k \in DOMAIN @ \cup {key} |-> IF k = key THEN value ELSE @[k]]]

-----------------------------------------------------------------------------
(* Command lines and the environment *)

SourcePaths == {<<"s", "/", "a">>, <<"d", "/", "b">>}

DestPaths == {<<>>, <<"o">>, <<"d">>, <<"d", "/">>}

AllPaths ==
    SourcePaths \cup DestPaths
    \cup {Join(d, Basename(f)) : d \in DestPaths, f \in SourcePaths}

SourceLists == UNION {[1..n -> SourcePaths] : n \in 1..MaxSources}

CommandLines ==
    [LAYER : {"X"}, SOURCE : SourceLists, DEST : DestPaths, verbose : BOOLEAN]

\* what the server at the layer's connection may answer
\* the capabilities documents a server may send
AnswerDocs ==
    {\* no Layer at all
     <<>>,
     \* the layer with its own Extent, as in the example of the description
     Doc(<<0>>, <<"X">>, <<<<Extent("time", T1, TRUE)>>>>),
     \* the Extent on the parent only
     Doc(<<0, 1>>, <<"Y", "X">>, <<<<Extent("time", T2, TRUE)>>, <<>>>>),
     \* Extents on the parent and on the layer
     Doc(<<0, 1>>, <<"Y", "X">>,
         <<<<Extent("time", T2, TRUE)>>, <<Extent("time", T1, TRUE)>>>>),
     \* an Extent on a sibling only
     Doc(<<0, 0>>, <<"X", "Y">>, <<<<>>, <<Extent("time", T1, TRUE)>>>>),
     \* an Extent that is not the time
     Doc(<<0>>, <<"X">>, <<<<Extent("elevation", T1, TRUE)>>>>)}

\* what the server at a layer's connection may answer to the request for the
\* layer called n: nothing, a body that is not XML, or a document, of which
\* the program only uses what lines 131-135 take out of it
Answers ==
    [n \in LayerNames |->
        {[kind |-> "unreachable", found |-> None],
         [kind |-> "malformed", found |-> None]}
        \cup {[kind |-> "xml", found |-> TimeExtentOf(d, n)] : d \in AnswerDocs}]

Idle ==
    /\ args = [LAYER |-> "X", SOURCE |-> <<>>, DEST |-> <<>>, verbose |-> FALSE]
    /\ fs = [p \in AllPaths |-> NoFile]
    /\ ipython = FALSE
    /\ openHandles = {}
    /\ folder = None
    /\ outfile = None
    /\ idx = 0
    /\ outFile = None
    /\ source = NoFile
    /\ original = NoFile
    /\ layer = PyNone
    /\ stream = "none"
    /\ requests = <<>>
    /\ opened = <<>>
    /\ saved = <<>>
    /\ log = <<>>
    /\ fetched = <<>>
    /\ raised = ""
    /\ usagePrinted = FALSE
    /\ exitStatus = -1

Init ==
    /\ pc = "start"
    /\ args \in CommandLines
    /\ \E content \in [SourcePaths -> FileContents] :
        fs = [p \in AllPaths |->
                IF p \in SourcePaths THEN content[p] ELSE NoFile]
    /\ ipython \in BOOLEAN
    /\ openHandles = {}
    /\ folder = None
    /\ outfile = None
    /\ idx = 0
    /\ outFile = None
    /\ source = NoFile
    /\ original = NoFile
    /\ layer = PyNone
    /\ stream = "none"
    /\ requests = <<>>
    /\ opened = <<>>
    /\ saved = <<>>
    /\ log = <<>>
    /\ fetched = <<>>
    /\ raised = ""
    /\ usagePrinted = FALSE
    /\ exitStatus = -1
    /\ capabilitiesTree = <<>>
    /\ strTimeExtent = <<>>
    /\ result = None

fetcherVars == <<capabilitiesTree, strTimeExtent, result>>

\* an exception reaches the handlers at the end of the script, which print it
\* and exit with status 1
Crash(exc) ==
    /\ raised' = exc
    /\ exitStatus' = EX_FAILURE
    /\ pc' = "done"

LogRec(level, msg) == [level |-> level, msg |-> msg]

\* lines 259-260, without the "not"
UsageErrorUnlessFolder(a) == Len(a.SOURCE) > 1 /\ Isdir(a.DEST)

\* lines 259-260: more than one SOURCE needs a folder as DEST
UsageError(a) == Len(a.SOURCE) > 1 /\ ~Isdir(a.DEST)

\* __main__, lines 256-267: parse the command line and check the usage
ParseArgs ==
    /\ pc = "start"
    /\ openHandles' = 1..Len(args.SOURCE)
    /\ IF UsageError(args)
       THEN /\ usagePrinted' = TRUE
            /\ exitStatus' = EX_USAGE
            /\ pc' = "done"
            /\ UNCHANGED log
       ELSE /\ log' = IF args.verbose
                      THEN Append(log, LogRec("INFO", "asctime"))
                      ELSE log
            /\ pc' = "main"
            /\ UNCHANGED <<usagePrinted, exitStatus>>
    /\ UNCHANGED <<args, fs, ipython, folder, outfile, idx, outFile, source,
                   original, layer, stream, requests, opened, saved, fetched,
                   raised, fetcherVars>>

\* lines 206-215, taking every destination for a file
DestinationAsFile(destination) ==
    [folder |-> None, outfile |-> Some(destination)]

\* lines 206-215: is the destination a folder or a file
Destination(destination) ==
    IF Isdir(destination)
    THEN [folder |-> Some(destination), outfile |-> None]
    ELSE [folder |-> None, outfile |-> Some(destination)]

\* main, lines 206-215
Main ==
    /\ pc = "main"
    /\ folder' = Destination(args.DEST).folder
    /\ outfile' = Destination(args.DEST).outfile
    /\ idx' = 1
    /\ pc' = "loop"
    /\ UNCHANGED <<args, fs, ipython, openHandles, outFile, source, original,
                   layer, stream, requests, opened, saved, log, fetched,
                   raised, usagePrinted, exitStatus, fetcherVars>>

\* process, lines 175-176, when both arguments are given
ResolveOutFileOnly(file, folderArg, fileName) == file

\* process, lines 175-176
ResolveOutFile(file, folderArg, fileName) ==
    IF Truthy(folderArg)
    THEN Some(Join(folderArg[1], Basename(fileName)))
    ELSE file

\* layer == types.NoneType
IsNoneType(l) == l = NoneType

\* main, lines 217-219, and process, lines 171-183: close the handle, resolve
\* the output path, open the mapfile and look the layer up
ProcessOpen ==
    /\ pc = "loop"
    /\ idx <= Len(args.SOURCE)
    /\ openHandles' = openHandles \ {idx}
    /\ stream' = "none"
    /\ LET fileName == args.SOURCE[idx]
           asserted == /\ Truthy(outfile) \/ Truthy(folder)
                       /\ ~(Truthy(outfile) /\ Truthy(folder))
           map == fs[fileName]
           found == getLayerByName(map, args.LAYER)
       IN  IF ~asserted
           THEN /\ Crash("AssertionError")
                /\ UNCHANGED <<outFile, opened, source, original, layer>>
           ELSE /\ outFile' = ResolveOutFile(outfile, folder, fileName)
                /\ opened' = Append(opened, fileName)
                /\ IF map.kind # "map"
                   THEN /\ Crash("MapServerError")
                        /\ UNCHANGED <<source, original, layer>>
                   ELSE /\ source' = map
                        /\ original' = map
                        /\ layer' = found
                        /\ IF IsNoneType(found)
                           THEN \* the WARN of line 182 cannot format its message
                                Crash("TypeError")
                           ELSE /\ pc' = "update"
                                /\ UNCHANGED <<raised, exitStatus>>
    /\ UNCHANGED <<args, fs, ipython, folder, outfile, idx, requests, saved,
                   log, fetched, usagePrinted, fetcherVars>>

Outcome(kind, value) == [outcome |-> kind, value |-> value]

\* updateWMStimeExtent, lines 105-151, called from process, lines 185-191.
\* No statement of updateWMStimeExtent raises MapServerError here, so the
\* handler of lines 189-191 is never entered and every exception leaves
\* process.
UpdateWMStimeExtent ==
    /\ pc = "update"
    /\ IF layer = PyNone
       THEN \* line 119: None has no attribute connection
            /\ fetched' = Append(fetched, Outcome("nolayer", None))
            /\ Crash("AttributeError")
            /\ UNCHANGED <<requests, stream, original, log, strTimeExtent>>
       ELSE
        \E a \in Answers[layer.name] :
            /\ requests' = Append(requests,
                    <<original.layers[layer.name].connection, QUERY>>)
            /\ fetched' = Append(fetched,
                    Outcome(IF a.kind # "xml" THEN a.kind
                            ELSE IF a.found = None THEN "notfound"
                            ELSE "found",
                            a.found))
            /\ IF a.kind = "unreachable"
               THEN \* line 126: urlopen raises, there is no stream
                    /\ stream' = "none"
                    /\ Crash("URLError")
                    /\ UNCHANGED <<original, log, strTimeExtent>>
               ELSE IF a.kind = "malformed"
               THEN \* line 127: etree.parse raises, line 128 is not reached
                    /\ stream' = "open"
                    /\ Crash("XMLSyntaxError")
                    /\ UNCHANGED <<original, log, strTimeExtent>>
               ELSE /\ stream' = "closed"
                    /\ IF a.found = None
                       THEN \* line 133: [0] of an empty list
                            /\ log' = Append(log, LogRec("ERROR", "no dates"))
                            /\ Crash("IndexError")
                            /\ UNCHANGED <<original, strTimeExtent>>
                       ELSE /\ strTimeExtent' = a.found[1]
                            /\ original' = setMetaData(original, layer.name,
                                                       MDKEY, a.found[1])
                            /\ IF ipython
                               THEN \* IPython.embed() returns
                                    /\ pc' = "save"
                                    /\ UNCHANGED <<log, raised, exitStatus>>
                               ELSE \* line 141: import IPython fails
                                    /\ log' = Append(log,
                                            LogRec("ERROR", "no dates"))
                                    /\ Crash("ImportError")
    /\ UNCHANGED <<args, fs, ipython, openHandles, folder, outfile, idx,
                   outFile, source, layer, opened, saved, usagePrinted,
                   capabilitiesTree, result>>

\* process, line 193, and the return to the loop of main
Save ==
    /\ pc = "save"
    /\ fs' = [fs EXCEPT ![outFile[1]] = original]
    /\ saved' = Append(saved, [call |-> idx, path |-> outFile[1],
                               map |-> original, from |-> source])
    /\ idx' = idx + 1
    /\ pc' = "loop"
    /\ UNCHANGED <<args, ipython, openHandles, folder, outfile, outFile,
                   source, original, layer, stream, requests, opened, log,
                   fetched, raised, usagePrinted, exitStatus, fetcherVars>>

\* __main__, lines 269-273: main has returned
Exit ==
    /\ pc = "loop"
    /\ idx > Len(args.SOURCE)
    /\ log' = IF args.verbose
              THEN log \o <<LogRec("INFO", "asctime"),
                            LogRec("INFO", "total time")>>
              ELSE log
    /\ exitStatus' = EX_OK
    /\ pc' = "done"
    /\ UNCHANGED <<args, fs, ipython, openHandles, folder, outfile, idx,
                   outFile, source, original, layer, stream, requests, opened,
                   saved, fetched, raised, usagePrinted, fetcherVars>>

Next ==
    \/ ParseArgs
    \/ Main
    \/ ProcessOpen
    \/ UpdateWMStimeExtent
    \/ Save
    \/ Exit

Spec == Init /\ [][Next]_vars

-----------------------------------------------------------------------------
(* The XPath lookup of the fetcher on its own, over every document *)

InitXPath ==
    /\ Idle
    /\ pc = "xpath"
    /\ \E n \in 0..MaxLayers :
        \E sh \in Shapes(n), nm \in [1..n -> LayerNames],
           ex \in [1..n -> ExtentChoices] :
            capabilitiesTree = Doc(sh, nm, ex)
    /\ strTimeExtent = <<>>
    /\ result = None

\* lines 131-135 on capabilitiesTree, for the layer args.LAYER; result keeps
\* the owner of the selected text node next to the purged string
XPathQuery ==
    /\ pc = "xpath"
    /\ LET found == XPath(capabilitiesTree, args.LAYER)
       IN  IF found = <<>>
           THEN result' = None /\ UNCHANGED strTimeExtent
           ELSE /\ strTimeExtent' = TimeExtentOf(capabilitiesTree, args.LAYER)[1]
                /\ result' = Some([owner |-> found[1],
                                   value |-> strTimeExtent'])
    /\ pc' = "queried"
    /\ UNCHANGED <<args, fs, ipython, openHandles, folder, outfile, idx,
                   outFile, source, original, layer, stream, requests, opened,
                   saved, log, fetched, raised, usagePrinted, exitStatus,
                   capabilitiesTree>>

NextXPath == XPathQuery

SpecXPath == InitXPath /\ [][NextXPath]_vars

-----------------------------------------------------------------------------
(* The normalization on its own, over every short string *)

Alphabet == {"-", ",", "1"}

Strings == UNION {[1..n -> Alphabet] : n \in 0..MaxLen}

InitNormalize ==
    /\ Idle
    /\ pc = "normalize"
    /\ capabilitiesTree = <<>>
    /\ strTimeExtent \in Strings
    /\ result = None

\* line 135
NormalizeStep ==
    /\ pc = "normalize"
    /\ result' = Some(Normalize(strTimeExtent))
    /\ pc' = "normalized"
    /\ UNCHANGED <<args, fs, ipython, openHandles, folder, outfile, idx,
                   outFile, source, original, layer, stream, requests, opened,
                   saved, log, fetched, raised, usagePrinted, exitStatus,
                   capabilitiesTree, strTimeExtent>>

NextNormalize == NormalizeStep

SpecNormalize == InitNormalize /\ [][NextNormalize]_vars

-----------------------------------------------------------------------------
(* Properties *)

\* the process call for args.SOURCE[k] has returned or raised
CallEnded(k) == pc = "done" \/ idx > k

Warned == \E n \in 1..Len(log) : log[n].level = "WARNING"

\* out is src except that the metadata entry key of the layer name holds v
OnlyEntryChanged(src, out, name, key, v) ==
    /\ out.kind = src.kind
    /\ out.settings = src.settings
    /\ DOMAIN out.layers = DOMAIN src.layers
    /\ \A l \in DOMAIN src.layers \ {name} : out.layers[l] = src.layers[l]
    /\ out.layers[name].connection = src.layers[name].connection
    /\ DOMAIN out.layers[name].metadata
         = DOMAIN src.layers[name].metadata \cup {key}
    /\ out.layers[name].metadata[key] = v
    /\ \A k \in DOMAIN src.layers[name].metadata \ {key} :
          out.layers[name].metadata[k] = src.layers[name].metadata[k]

\* C1: every process call in which the named layer exists and the fetcher
\* finds a time extent ends by saving the mapfile to the output path, and the
\* saved mapfile is the source mapfile except that the named layer's
\* wms_timeextent entry holds the normalized extent string.
C1_FoundExtentIsSaved ==
    \A k \in 1..Len(fetched) :
        (fetched[k].outcome = "found" /\ CallEnded(k)) =>
            \E j \in 1..Len(saved) :
                /\ saved[j].call = k
                /\ OnlyEntryChanged(saved[j].from, saved[j].map, args.LAYER,
                                    MDKEY, fetched[k].value[1])

\* C2: when the layer exists but the capabilities document has no matching
\* time Extent, a warning is logged, the mapfile is still saved with the
\* layer's metadata untouched, and the batch goes on.
C2_MissingExtentIsSavedUntouched ==
    \A k \in 1..Len(fetched) :
        (fetched[k].outcome = "notfound" /\ CallEnded(k)) =>
            /\ Warned
            /\ raised = ""
            /\ \E j \in 1..Len(saved) :
                  saved[j].call = k /\ saved[j].map = saved[j].from

\* the mapfile at hand was parsed and does not contain the named layer
LayerMissing == source.kind = "map" /\ layer = PyNone

\* C3: when the source mapfile does not contain the named layer, process logs
\* a warning and returns normally without fetching capabilities and without
\* writing an output file, and the batch goes on.
C3_MissingLayerIsSkipped ==
    LayerMissing =>
        /\ pc # "update"
        /\ raised = ""
        /\ Warned

\* C9: once the HTTP GET has returned a response stream, the stream is closed
\* by the time the fetcher returns or raises.
C9_StreamClosedOnExit == pc # "update" => stream # "open"

\* C4, as stated: with exactly one SOURCE the mapfile is saved to the literal
\* DEST, also when DEST is an existing directory.
C4_SavedToLiteralDest ==
    Len(args.SOURCE) = 1 =>
        \A j \in 1..Len(saved) : saved[j].path = args.DEST

\* C4, amended: with exactly one SOURCE the mapfile is saved to the literal
\* DEST when DEST is not an existing directory, and to DEST joined with
\* basename(SOURCE) when it is.
C4_SavedToDestOrIntoDest ==
    Len(args.SOURCE) = 1 =>
        LET expected == IF Isdir(args.DEST)
                        THEN Join(args.DEST, Basename(args.SOURCE[1]))
                        ELSE args.DEST
        IN  /\ pc \in {"update", "save"} => outFile = Some(expected)
            /\ \A j \in 1..Len(saved) : saved[j].path = expected

C4_Witness ==
    /\ Len(args.SOURCE) = 1
    /\ ~Isdir(args.DEST)
    /\ Len(saved) = 1
    /\ saved[1].path = args.DEST
    /\ fs[args.DEST] = saved[1].map

\* C5: with more than one SOURCE and an existing directory as DEST, the output
\* path of each source file is DEST joined with basename(source), and every
\* process call receives exactly one of outFile and outFolder, so that the
\* two assertions of process hold.
C5_FolderModePaths ==
    (Len(args.SOURCE) > 1 /\ Isdir(args.DEST)) =>
        /\ pc \in {"update", "save"} =>
              outFile = Some(Join(args.DEST, Basename(args.SOURCE[idx])))
        /\ pc \in {"loop", "update", "save"} =>
              Truthy(outfile) # Truthy(folder)
        /\ raised # "AssertionError"
        /\ \A j \in 1..Len(saved) :
              saved[j].path
                = Join(args.DEST, Basename(args.SOURCE[saved[j].call]))

C5_Witness ==
    /\ Len(args.SOURCE) > 1
    /\ Isdir(args.DEST)
    /\ Len(saved) = Len(args.SOURCE)
    /\ args.SOURCE[1] # args.SOURCE[2]
    /\ saved[1].path # saved[2].path

\* C6: with more than one SOURCE and a DEST that is not an existing directory
\* the run prints the usage and exits with the usage status before any
\* processing: no mapfile is opened, no capabilities request is made and no
\* output file is written.
C6_UsageErrorBeforeProcessing ==
    (Len(args.SOURCE) > 1 /\ ~Isdir(args.DEST) /\ pc # "start") =>
        /\ pc = "done"
        /\ usagePrinted
        /\ exitStatus = EX_USAGE
        /\ raised = ""
        /\ opened = <<>>
        /\ requests = <<>>
        /\ saved = <<>>
        /\ \A p \in AllPaths \ SourcePaths : fs[p] = NoFile

C6_Witness ==
    /\ Len(args.SOURCE) > 1
    /\ ~Isdir(args.DEST)
    /\ usagePrinted
    /\ exitStatus = EX_USAGE

\* the string without its '-' characters
Purged(t) == SelectSeq(t, LAMBDA c : c # "-")

\* Layer i has an Extent named time with a text
HasTime(d, i) ==
    /\ d[i].Extent # <<>>
    /\ d[i].Extent[1].name = "time"
    /\ d[i].Extent[1].text # <<>>

\* the Layers with the queried name
Queried(d) == {i \in 1..Len(d) : d[i].Name = args.LAYER}

\* the queried Layers that have a time Extent of their own
Own(d) == {i \in Queried(d) : HasTime(d, i)}

\* the proper ancestors of queried Layers that have a time Extent
Inherited(d) ==
    {j \in 1..Len(d) :
        /\ HasTime(d, j)
        /\ \E i \in Queried(d) : j # i /\ j \in AncestorOrSelf(d, i)}

\* C7: when the queried layer has no time Extent of its own but an ancestor
\* layer, at any depth, has one, the fetcher yields the ancestor's value; an
\* Extent of a layer that is neither the queried layer nor one of its
\* ancestors is never yielded.
C7_CascadingLookup ==
    pc = "queried" =>
        LET d == capabilitiesTree
        IN  /\ (Own(d) = {} /\ Inherited(d) # {}) =>
                  /\ result # None
                  /\ result[1].owner \in Inherited(d)
                  /\ result[1].value = Purged(TextOf(d, result[1].owner))
            /\ result # None => result[1].owner \in Own(d) \cup Inherited(d)

C7_Witness ==
    LET d == capabilitiesTree
    IN  /\ pc = "queried"
        /\ Own(d) = {}
        /\ result # None
        /\ \E i \in Queried(d) :
              /\ d[i].parent # 0
              /\ d[d[i].parent].parent = result[1].owner
              /\ ~HasTime(d, d[i].parent)

\* the Extent of Layer i stands before the Extent of Layer j in the document
Precedes(d, i, j) ==
    IF i \in AncestorOrSelf(d, j) THEN d[i].Extent[1].first
    ELSE IF j \in AncestorOrSelf(d, i) THEN ~d[j].Extent[1].first
    ELSE i < j

\* a queried Layer and one of its proper ancestors both have a time Extent
OwnAndInherited(d) ==
    \E i \in Own(d) :
        \E j \in AncestorOrSelf(d, i) \ {i} : HasTime(d, j)

\* C10: when the queried layer and one or more of its ancestors carry a time
\* Extent, the layer's own Extent gets no preference: the value is the one
\* first in document order among them, which is the outermost ancestor's when
\* every Extent stands before the nested Layer elements of its parent.
C10_FirstInDocumentOrder ==
    (pc = "queried" /\ OwnAndInherited(capabilitiesTree)) =>
        LET d == capabilitiesTree
            chain == Own(d) \cup Inherited(d)
        IN  /\ result # None
            /\ result[1].owner \in chain
            /\ result[1].value = Purged(TextOf(d, result[1].owner))
            /\ \A j \in chain \ {result[1].owner} :
                  Precedes(d, result[1].owner, j)
            /\ (\A j \in chain : d[j].Extent[1].first) =>
                  /\ AncestorOrSelf(d, result[1].owner) \cap chain
                        = {result[1].owner}
                  /\ \A j \in chain : result[1].owner <= j

C10_Witness ==
    LET d == capabilitiesTree
    IN  /\ pc = "queried"
        /\ result # None
        /\ \E i \in Own(d) :
              /\ result[1].owner # i
              /\ result[1].owner \in AncestorOrSelf(d, i)
              /\ result[1].value # Purged(TextOf(d, i))

\* C8: the normalization removes exactly the '-' characters: the outcome has
\* no '-', keeps every other character in its order, is the input when the
\* input has no '-', and is a fixed point of the normalization.
C8_NormalizeRemovesDashes ==
    pc = "normalized" =>
        LET s == strTimeExtent
            r == result[1]
        IN  /\ \A k \in 1..Len(r) : r[k] # "-"
            /\ r = Purged(s)
            /\ (\A k \in 1..Len(s) : s[k] # "-") => r = s
            /\ Normalize(r) = r

C8_Witness ==
    /\ pc = "normalized"
    /\ Cardinality({k \in 1..Len(strTimeExtent) : strTimeExtent[k] = "-"}) >= 2
    /\ \E k \in 1..Len(strTimeExtent) : strTimeExtent[k] = ","
    /\ Len(result[1]) = Len(strTimeExtent) - 2

====
